---- MODULE Spec2Model ----
(***************************************************************************)
(* Model of http-monitor (src/main.go): the polling loop runMonitorLoop,   *)
(* one pass monitorOnce over the configured URLs, the per-URL alert state  *)
(* lastAlert with canSendAlert / recordAlert / resetAlert, the webhook     *)
(* notifier sendFeishuCard and the cancellation context.                   *)
(*                                                                         *)
(* Time is a discrete clock `now`; every duration (latency, cooldown,      *)
(* latency threshold, interval) is a number of clock units.                *)
(***************************************************************************)
EXTENDS Integers, Sequences, FiniteSets, TLC

(***************************************************************************)
(* Bounds of the model.                                                    *)
(***************************************************************************)
\* the clock runs from 0 to MaxTime
MaxTime == 4
\* the longest a probe can take: http.Client{Timeout: timeout}
Timeout == 2
\* the longest an answered webhook POST takes
MaxSendTime == 1
\* the ticker period runtime.Interval
Interval == 2
\* the most /metrics requests served at the same time
MaxInflight == 1

(***************************************************************************)
(* Values.                                                                 *)
(***************************************************************************)
URLSet == {"u1", "u2"}
\* monitor.urls / MONITOR_URLS: empty, one entry, two entries, a repeated entry
URLLists == {<<>>, <<"u1">>, <<"u1", "u2">>, <<"u1", "u1">>}
\* feishu.webhook / FEISHU_WEBHOOK: unset or set
Webhooks == {"", "hook"}
\* policy.Cooldown
Cooldowns == {0, 2, 3}
\* policy.LatencyThreshold (0 = disabled)
LatencyThresholds == {0, 1}
\* HTTP status codes a probed URL answers with
StatusCodes == {199, 200, 299, 300}
\* HTTP status codes the webhook answers with
WebhookCodes == {200, 204, 500}
\* resp is nil when client.Get / http.Post returns an error
NoCode == 0
\* a key that is not in the lastAlert map
Absent == -1
\* the zero time.Time, which is before every clock reading
ZeroTime == -2

VARIABLES
    runtime,      \* MonitorRuntime: URLs, Webhook, Cooldown, LatencyThreshold
    pc,           \* position of the main goroutine
    idx,          \* index of the URL entry monitorOnce is at
    now,          \* the clock
    cancelled,    \* ctx.Done() is closed
    tickPending,  \* number of ticks buffered in ticker.C
    nextTick,     \* when the ticker fires next
    lastAlert,    \* the lastAlert map: URL -> time, Absent when no key
    reqTotal,     \* http_monitor_requests_total{url,status}
    reqDuration,  \* number of observations of the duration histogram per url
    pending,      \* the notification being posted: url and status
    ev,           \* what the last step of the loop did (observation record)
    hist,         \* per URL: the last thing that happened to it
    sentAt,       \* per URL: when a notification was last delivered, Absent if never
    sentStatus,   \* per URL: the status that notification was sent for
    healthySince, \* per URL: it was observed Healthy since that notification
    probes,       \* per URL entry: number of probes in the current cycle
    config,       \* what main reads: config.yaml or the environment; NoConfig once used
    srv,          \* the metrics http.Server: "off", "listening", "shutdown", "closed"
    inflight,     \* metrics requests being served
    graceEnd,     \* when the grace period of server.Shutdown ends; Absent before the call
    process,      \* "running" until main returns or os.Exit is called
    stopAt        \* when winProgram.Stop returns; Absent while Stop was not called

vars == <<runtime, pc, idx, now, cancelled, tickPending, nextTick, lastAlert,
          reqTotal, reqDuration, pending, ev, hist, sentAt, sentStatus, healthySince,
          probes, config, srv, inflight, graceEnd, process, stopAt>>

Statuses == {"OK", "ERROR", "SLOW"}

NoPending == [url |-> "", status |-> ""]

NoEvent == [kind |-> "idle", url |-> "", err |-> FALSE, code |-> NoCode, latency |-> 0,
            status |-> "", decision |-> "", at |-> 0, prevLast |-> Absent,
            prevHist |-> "", failed |-> FALSE]

(***************************************************************************)
(* monitorOnce: classification of one probe.                               *)
(***************************************************************************)
\* status after the error / status-code test
BaseStatus(err, code) ==
    IF err THEN "ERROR"
    ELSE IF code < 200 \/ code >= 300 THEN "ERROR"
    ELSE "OK"

Classify_inclusive(err, code, latency, threshold) ==
    IF threshold > 0 /\ BaseStatus(err, code) = "OK" /\ latency >= threshold
    THEN "SLOW"
    ELSE BaseStatus(err, code)

\* final status: an OK response slower than the threshold becomes SLOW
Classify(err, code, latency, threshold) ==
    IF threshold > 0 /\ BaseStatus(err, code) = "OK" /\ latency > threshold
    THEN "SLOW"
    ELSE BaseStatus(err, code)

(***************************************************************************)
(* monitorOnce: the two samples of a probe, taken after the classification *)
(* and before the alert decision.                                          *)
(***************************************************************************)
Inc_okonly(total, u, status) ==
    IF status = "OK" THEN [total EXCEPT ![u][status] = @ + 1] ELSE total

\* reqTotal.WithLabelValues(u, status).Inc()
Inc(total, u, status) == [total EXCEPT ![u][status] = @ + 1]

\* reqDuration.WithLabelValues(u).Observe(latency.Seconds()): the
\* number of observations of the histogram
Observe(duration, u) == [duration EXCEPT ![u] = @ + 1]

AlertNeeded_always(status) == TRUE

\* alertNeeded: set for SLOW and for ERROR
AlertNeeded(status) == status = "SLOW" \/ status = "ERROR"

(***************************************************************************)
(* The alert state: lastAlert and its three operations.                    *)
(***************************************************************************)
IsZero(t) == t = ZeroTime

canSendAlert_nocooldown(la, url, cooldown, t) == TRUE

canSendAlert_strict(la, url, cooldown, t) ==
    IF la[url] = Absent \/ IsZero(la[url]) THEN TRUE
    ELSE t - la[url] > cooldown

canSendAlert(la, url, cooldown, t) ==
    IF cooldown <= 0 THEN TRUE
    ELSE IF la[url] = Absent \/ IsZero(la[url]) THEN TRUE
    ELSE t - la[url] >= cooldown

recordAlert_noop(la, url, t) == la

recordAlert(la, url, t) == [la EXCEPT ![url] = t]

resetAlert_keep(la, url) == la

resetAlert(la, url) == [la EXCEPT ![url] = Absent]

ShouldSend_anywebhook(webhook, la, url, cooldown, t) ==
    canSendAlert(la, url, cooldown, t)

\* the guard of the notification: webhook != "" && canSendAlert(u, policy.Cooldown)
ShouldSend(webhook, la, url, cooldown, t) ==
    webhook # "" /\ canSendAlert(la, url, cooldown, t)

(***************************************************************************)
(* sendFeishuCard: an error is returned for a transport error and for      *)
(* every reply other than 200.                                             *)
(***************************************************************************)
SendFailed_ignorestatus(transportErr, code) == transportErr

SendFailed(transportErr, code) == transportErr \/ code # 200

(***************************************************************************)
(* The ticker: a channel of capacity 1; a tick that finds the channel full *)
(* is dropped.                                                             *)
(***************************************************************************)
\* capacity of the channel ticker.C
TickerCap == 1

\* ticks the ticker fires from nt up to t, one every Interval
TicksFired(nt, t) == IF nt > t THEN 0 ELSE ((t - nt) \div Interval) + 1

TickPendingAfter_stacking(tp, nt, t) == tp + TicksFired(nt, t)

\* ticks buffered at time t: a tick that finds the channel full is dropped
TickPendingAfter(tp, nt, t) ==
    IF tp + TicksFired(nt, t) > TickerCap THEN TickerCap ELSE tp + TicksFired(nt, t)

NextTickAfter(nt, interval, t) ==
    IF nt > t THEN nt ELSE nt + interval * (((t - nt) \div interval) + 1)

(***************************************************************************)
(* The range loop of monitorOnce over n entries: the body has no break,    *)
(* continue or return, so entry i is followed by entry i + 1 whether or    *)
(* not the entry was in trouble (an alert-worthy probe, a failed send).    *)
(***************************************************************************)
NextEntry_abort(i, n, trouble) == IF trouble THEN n + 1 ELSE i + 1

NextEntry(i, n, trouble) == i + 1

PcAfter(i, n) == IF i > n THEN "wait" ELSE "probe"

(***************************************************************************)
(* Configuration: loadConfig and the first part of main.  A number of the  *)
(* configuration is either not set or set to a value.  Durations are       *)
(* counted in clock units; the factors time.Second and time.Millisecond    *)
(* are left out.                                                           *)
(***************************************************************************)
NotSet == [set |-> FALSE, val |-> 0]

Setting(values) == {NotSet} \cup {[set |-> TRUE, val |-> v] : v \in values}

\* MONITOR_URLS split at the commas: "", " ", "u1", "u1,u2", " u1,", "u1,u1"
EnvURLFields == {<<"">>, <<" ">>, <<"u1">>, <<"u1", "u2">>, <<" u1", "">>, <<"u1", "u1">>}

YamlConfigs ==
    [source : {"yaml"}, urls : URLLists, webhook : Webhooks,
     cooldown : Setting(Cooldowns \cup {-1}),
     latency : Setting(LatencyThresholds \cup {-1})]

EnvConfigs ==
    [source : {"env"}, urls : EnvURLFields, webhook : Webhooks,
     cooldown : Setting(Cooldowns \cup {-1}),
     latency : Setting(LatencyThresholds \cup {-1})]

NoConfig == [source |-> "", urls |-> <<>>, webhook |-> "",
             cooldown |-> NotSet, latency |-> NotSet]

NoRuntime == [URLs |-> <<>>, Webhook |-> "", Cooldown |-> 0, LatencyThreshold |-> 0]

\* ALERT_COOLDOWN_SECONDS when the variable is not set
DefaultCooldown == 60
\* ALERT_LATENCY_THRESHOLD_MS when the variable is not set
DefaultLatency == 0

\* bytes.TrimSpace on a field of MONITOR_URLS
TrimSpace(f) == IF f = " " THEN "" ELSE IF f = " u1" THEN "u1" ELSE f

NonEmpty(f) == f # ""

\* the environment path: split, trim, drop the empty fields
EnvURLList(fields) ==
    SelectSeq([i \in 1..Len(fields) |-> TrimSpace(fields[i])], NonEmpty)

Clamp(v) == IF v < 0 THEN 0 ELSE v

\* config.yaml: a missing key leaves the int at 0; loadConfig raises a negative to 0
YamlNumber(c) == Clamp(IF c.set THEN c.val ELSE 0)

\* environment: getEnv puts the default in place of a missing variable
EnvNumber(c, def) == Clamp(IF c.set THEN c.val ELSE def)

CooldownOf(cfg) ==
    IF cfg.source = "yaml" THEN YamlNumber(cfg.cooldown)
    ELSE EnvNumber(cfg.cooldown, DefaultCooldown)

LatencyOf(cfg) ==
    IF cfg.source = "yaml" THEN YamlNumber(cfg.latency)
    ELSE EnvNumber(cfg.latency, DefaultLatency)

URLsOf(cfg) ==
    IF cfg.source = "yaml" THEN cfg.urls ELSE EnvURLList(cfg.urls)

BuildRuntime(cfg) ==
    [URLs |-> URLsOf(cfg), Webhook |-> cfg.webhook,
     Cooldown |-> CooldownOf(cfg), LatencyThreshold |-> LatencyOf(cfg)]

NoURLs_never(urls) == FALSE

\* len(urls) == 0 (and rawURLs == "" on the environment path, which gives the
\* empty list)
NoURLs(urls) == Len(urls) = 0

(***************************************************************************)
(* Initial state: the process starts; main has read nothing yet.           *)
(***************************************************************************)
Init ==
    /\ config \in YamlConfigs \cup EnvConfigs
    /\ runtime = NoRuntime
    /\ pc = "config"
    /\ srv = "off"
    /\ inflight = 0
    /\ graceEnd = Absent
    /\ process = "running"
    /\ stopAt = Absent
    /\ idx = 0
    /\ now = 0
    /\ cancelled = FALSE
    /\ tickPending = 0
    /\ nextTick = 0
    /\ lastAlert = [u \in URLSet |-> Absent]
    /\ reqTotal = [u \in URLSet |-> [s \in Statuses |-> 0]]
    /\ reqDuration = [u \in URLSet |-> 0]
    /\ pending = NoPending
    /\ ev = NoEvent
    /\ hist = [u \in URLSet |-> "none"]
    /\ sentAt = [u \in URLSet |-> Absent]
    /\ sentStatus = [u \in URLSet |-> ""]
    /\ healthySince = [u \in URLSet |-> FALSE]
    /\ probes = <<>>

alertState == <<lastAlert, hist, sentAt, sentStatus, healthySince>>
metrics == <<reqTotal, reqDuration>>
ticker == <<tickPending, nextTick>>
server == <<srv, inflight, graceEnd>>

(***************************************************************************)
(* main: the configuration becomes the MonitorRuntime.                     *)
(***************************************************************************)
LoadConfig ==
    /\ pc = "config"
    /\ runtime' = BuildRuntime(config)
    /\ pc' = "start"
    /\ UNCHANGED <<config, idx, now, cancelled, ticker, alertState, metrics, pending,
                   ev, probes, server, process, stopAt>>

(***************************************************************************)
(* main: the empty URL list ends the process; otherwise run(ctx) enters    *)
(* runMonitorLoop, which creates the ticker.                               *)
(***************************************************************************)
MainExitNoURLs ==
    /\ pc = "start"
    /\ NoURLs(runtime.URLs)
    /\ pc' = "halted"
    /\ process' = "exited"
    /\ ev' = NoEvent
    /\ UNCHANGED <<runtime, idx, now, cancelled, ticker, alertState, metrics,
                   pending, probes, config, server, stopAt>>

\* handleWindowsService with -service install|uninstall|start|stop: the
\* command is passed to the service manager and main returns
ServiceControl ==
    /\ pc = "start"
    /\ ~NoURLs(runtime.URLs)
    /\ pc' = "halted"
    /\ process' = "exited"
    /\ ev' = NoEvent
    /\ UNCHANGED <<runtime, idx, now, cancelled, ticker, alertState, metrics,
                   pending, probes, config, server, stopAt>>

MainRun ==
    /\ pc = "start"
    /\ ~NoURLs(runtime.URLs)
    /\ pc' = "select"
    /\ config' = NoConfig
    /\ srv' = "listening"
    /\ tickPending' = 0
    /\ nextTick' = now + Interval
    /\ ev' = NoEvent
    /\ UNCHANGED <<runtime, idx, now, cancelled, alertState, metrics, pending, probes,
                   inflight, graceEnd, process, stopAt>>

(***************************************************************************)
(* cancel() is called: by the signal goroutine of main; ServiceStop below  *)
(* is the call by winProgram.Stop, which also ends the process.            *)
(***************************************************************************)
Cancel ==
    /\ pc \notin {"config", "start", "halted"}
    /\ process = "running"
    /\ ~cancelled
    /\ cancelled' = TRUE
    /\ UNCHANGED <<runtime, pc, idx, now, ticker, alertState, metrics, pending,
                   ev, probes, config, server, process, stopAt>>

\* as a Windows service the process ends when winProgram.Stop returns: the
\* loop takes no step after that time
BeforeStop(t) == stopAt = Absent \/ t <= stopAt

(***************************************************************************)
(* runMonitorLoop, first select: ctx.Done() or, by default, monitorOnce.   *)
(***************************************************************************)
ExitAtCycleStart ==
    /\ process = "running"
    /\ pc = "select"
    /\ cancelled
    /\ pc' = "exited"
    /\ ev' = NoEvent
    /\ UNCHANGED <<runtime, idx, now, cancelled, ticker, alertState, metrics,
                   pending, probes, config, server, process, stopAt>>

StartCycle ==
    /\ process = "running"
    /\ pc = "select"
    /\ ~cancelled
    /\ idx' = 1
    /\ pc' = PcAfter(1, Len(runtime.URLs))
    /\ probes' = [i \in 1..Len(runtime.URLs) |-> 0]
    /\ ev' = [NoEvent EXCEPT !.kind = "start"]
    /\ UNCHANGED <<runtime, now, cancelled, ticker, alertState, metrics, pending,
                   config, server, process, stopAt>>

(***************************************************************************)
(* monitorOnce, one iteration up to the notification: GET, classify,       *)
(* count, decide.                                                          *)
(***************************************************************************)
Probe(err, code, latency) ==
    LET u == runtime.URLs[idx]
        t == now + latency
        status == Classify(err, code, latency, runtime.LatencyThreshold)
        needed == AlertNeeded(status)
        send == needed /\ ShouldSend(runtime.Webhook, lastAlert, u, runtime.Cooldown, t)
        decision == IF ~needed THEN "none"
                    ELSE IF send THEN "attempt"
                    ELSE IF runtime.Webhook = "" THEN "nowebhook"
                    ELSE "suppressed"
        next == NextEntry(idx, Len(runtime.URLs), needed)
    IN  /\ now' = t
        /\ tickPending' = TickPendingAfter(tickPending, nextTick, t)
        /\ nextTick' = NextTickAfter(nextTick, Interval, t)
        /\ reqTotal' = Inc(reqTotal, u, status)
        /\ reqDuration' = Observe(reqDuration, u)
        /\ probes' = [probes EXCEPT ![idx] = @ + 1]
        /\ ev' = [kind |-> "probe", url |-> u, err |-> err, code |-> code,
                  latency |-> latency, status |-> status, decision |-> decision,
                  at |-> t, prevLast |-> lastAlert[u], prevHist |-> hist[u],
                  failed |-> FALSE]
        /\ IF needed
           THEN /\ lastAlert' = lastAlert
                /\ UNCHANGED <<sentAt, sentStatus, healthySince>>
                /\ IF send
                   THEN /\ pc' = "send"
                        /\ pending' = [url |-> u, status |-> status]
                        /\ hist' = [hist EXCEPT ![u] = "posting"]
                        /\ idx' = idx
                   ELSE /\ pc' = PcAfter(next, Len(runtime.URLs))
                        /\ pending' = NoPending
                        /\ hist' = [hist EXCEPT ![u] = decision]
                        /\ idx' = next
           ELSE /\ lastAlert' = resetAlert(lastAlert, u)
                /\ UNCHANGED <<sentAt, sentStatus>>
                /\ healthySince' = [healthySince EXCEPT ![u] = sentAt[u] # Absent]
                /\ hist' = [hist EXCEPT ![u] = "healthy"]
                /\ pc' = PcAfter(next, Len(runtime.URLs))
                /\ pending' = NoPending
                /\ idx' = next
        /\ UNCHANGED <<runtime, cancelled, config, server, process, stopAt>>

ProbeURL ==
    /\ process = "running"
    /\ pc = "probe"
    /\ \E err \in BOOLEAN, code \in StatusCodes \cup {NoCode}, latency \in 0..Timeout :
          /\ err <=> (code = NoCode)
          /\ now + latency <= MaxTime
          /\ BeforeStop(now + latency)
          /\ Probe(err, code, latency)

(***************************************************************************)
(* monitorOnce, the rest of the iteration: sendFeishuCard returns, and     *)
(* recordAlert runs when it returned nil.                                  *)
(***************************************************************************)
SendReturns(transportErr, code, d) ==
    LET u == pending.url
        t == now + d
        failed == SendFailed(transportErr, code)
        next == NextEntry(idx, Len(runtime.URLs), failed)
    IN  /\ now' = t
        /\ tickPending' = TickPendingAfter(tickPending, nextTick, t)
        /\ nextTick' = NextTickAfter(nextTick, Interval, t)
        /\ lastAlert' = IF failed THEN lastAlert ELSE recordAlert(lastAlert, u, t)
        /\ sentAt' = IF failed THEN sentAt ELSE [sentAt EXCEPT ![u] = t]
        /\ sentStatus' = IF failed THEN sentStatus
                         ELSE [sentStatus EXCEPT ![u] = pending.status]
        /\ healthySince' = IF failed THEN healthySince
                           ELSE [healthySince EXCEPT ![u] = FALSE]
        /\ hist' = [hist EXCEPT ![u] = IF failed THEN "failed" ELSE "sent"]
        /\ ev' = [kind |-> "send", url |-> u, err |-> transportErr, code |-> code,
                  latency |-> d, status |-> pending.status, decision |-> "attempt",
                  at |-> t, prevLast |-> lastAlert[u], prevHist |-> hist[u],
                  failed |-> failed]
        /\ pending' = NoPending
        /\ idx' = next
        /\ pc' = PcAfter(next, Len(runtime.URLs))
        /\ UNCHANGED <<runtime, cancelled, metrics, probes, config,
                       server, process, stopAt>>

SendDone ==
    /\ process = "running"
    /\ pc = "send"
    /\ \E transportErr \in BOOLEAN, code \in WebhookCodes \cup {NoCode}, d \in 0..MaxSendTime :
          /\ transportErr <=> (code = NoCode)
          /\ now + d <= MaxTime
          /\ BeforeStop(now + d)
          /\ SendReturns(transportErr, code, d)

(***************************************************************************)
(* runMonitorLoop, second select: ctx.Done() or a tick.  When both are     *)
(* ready the runtime picks either.                                         *)
(***************************************************************************)
ExitAtWait ==
    /\ process = "running"
    /\ pc = "wait"
    /\ cancelled
    /\ pc' = "exited"
    /\ ev' = NoEvent
    /\ UNCHANGED <<runtime, idx, now, cancelled, ticker, alertState, metrics,
                   pending, probes, config, server, process, stopAt>>

\* a tick is already buffered: the receive returns at once
TickBuffered ==
    /\ process = "running"
    /\ pc = "wait"
    /\ tickPending > 0
    /\ tickPending' = tickPending - 1
    /\ pc' = "select"
    /\ ev' = NoEvent
    /\ UNCHANGED <<runtime, idx, now, cancelled, nextTick, alertState, metrics,
                   pending, probes, config, server, process, stopAt>>

\* no tick is buffered: the goroutine sleeps until the ticker fires; with
\* ctx.Done() closed the select returns by that case at once instead
TickWait ==
    /\ process = "running"
    /\ pc = "wait"
    /\ ~cancelled
    /\ tickPending = 0
    /\ nextTick <= MaxTime
    /\ now' = nextTick
    /\ nextTick' = nextTick + Interval
    /\ tickPending' = 0
    /\ pc' = "select"
    /\ ev' = NoEvent
    /\ UNCHANGED <<runtime, idx, cancelled, alertState, metrics, pending, probes,
                   config, server, process, stopAt>>

Next ==
    \/ LoadConfig
    \/ MainExitNoURLs
    \/ ServiceControl
    \/ MainRun
    \/ Cancel
    \/ ExitAtCycleStart
    \/ StartCycle
    \/ ProbeURL
    \/ SendDone
    \/ ExitAtWait
    \/ TickBuffered
    \/ TickWait

Spec == Init /\ [][Next]_vars

(***************************************************************************)
(* The metrics server and the end of the process.  startMetricsServer      *)
(* starts two goroutines: one serves /metrics, the other waits for         *)
(* ctx.Done() and calls server.Shutdown with a grace period of 5 seconds.  *)
(* Shutdown closes the listener and returns when no request is in flight   *)
(* or when the grace period is over.  main returns as soon as              *)
(* runMonitorLoop returns, and the process ends with it, whatever the      *)
(* other goroutines are doing.                                             *)
(***************************************************************************)
loopState == <<runtime, pc, idx, now, cancelled, ticker, alertState, metrics, pending,
               ev, probes, config>>

MetricsRequest ==
    /\ process = "running"
    /\ srv = "listening"
    /\ inflight < MaxInflight
    /\ inflight' = inflight + 1
    /\ UNCHANGED <<loopState, srv, graceEnd, process, stopAt>>

MetricsReply ==
    /\ process = "running"
    /\ inflight > 0
    /\ inflight' = inflight - 1
    /\ UNCHANGED <<loopState, srv, graceEnd, process, stopAt>>

\* context.WithTimeout(context.Background(), 5*time.Second)
ShutdownGrace == 5

ShutdownBegin ==
    /\ process = "running"
    /\ cancelled
    /\ srv = "listening"
    /\ srv' = "shutdown"
    /\ graceEnd' = now + ShutdownGrace
    /\ UNCHANGED <<loopState, inflight, process, stopAt>>

\* Shutdown returns nil: every connection is idle
ShutdownIdle ==
    /\ inflight = 0
    /\ now' = now

\* Shutdown returns the context's error: the grace period is over with a
\* request still in flight.  The process is then still there: it was not
\* stopped as a service before, and the loop is in a POST or a probe that
\* lasts until then, or got where it is at this very moment.
ShutdownDeadline ==
    /\ inflight > 0
    /\ stopAt = Absent \/ graceEnd <= stopAt
    /\ \/ pc = "send"
       \/ pc = "probe" /\ graceEnd <= now + Timeout
       \/ now >= graceEnd
    /\ now' = IF now < graceEnd THEN graceEnd ELSE now

ShutdownEnd ==
    /\ process = "running"
    /\ srv = "shutdown"
    /\ ShutdownIdle \/ ShutdownDeadline
    /\ srv' = "closed"
    /\ UNCHANGED <<runtime, pc, idx, cancelled, ticker, alertState, metrics, pending,
                   ev, probes, config, inflight, graceEnd, process, stopAt>>

\* run(ctx) has returned: main returns and the process ends
MainReturn ==
    /\ process = "running"
    /\ stopAt = Absent
    /\ pc = "exited"
    /\ process' = "exited"
    /\ UNCHANGED <<loopState, server, stopAt>>

(***************************************************************************)
(* The program as a Windows service (service_windows.go).  Start runs      *)
(* run(ctx) in a goroutine of its own; Stop calls cancel(), sleeps for     *)
(* StopSleep and returns, after which Run and main return and the process  *)
(* ends wherever the loop and the metrics server are.  No signal handler   *)
(* is installed on this path, and run(ctx) returning does not end the      *)
(* process.                                                                *)
(***************************************************************************)
\* time.Sleep(2 * time.Second) in winProgram.Stop
StopSleep == 2

\* winProgram.Stop, up to the sleep
ServiceStop ==
    /\ process = "running"
    /\ pc \notin {"config", "start", "halted"}
    /\ ~cancelled
    /\ now + StopSleep <= MaxTime
    /\ cancelled' = TRUE
    /\ stopAt' = now + StopSleep
    /\ UNCHANGED <<runtime, pc, idx, now, ticker, alertState, metrics, pending,
                   ev, probes, config, server, process>>

\* winProgram.Stop returns, and main after it.  The loop is then in a probe
\* or in a POST that has not returned, or it has exited; it is elsewhere only
\* if it got there at this very moment.
ServiceStopReturn ==
    /\ process = "running"
    /\ stopAt # Absent
    /\ \/ pc \in {"send", "exited"}
       \/ pc = "probe" /\ stopAt <= now + Timeout
       \/ now = stopAt
    /\ now' = stopAt
    /\ process' = "exited"
    /\ UNCHANGED <<runtime, pc, idx, cancelled, ticker, alertState, metrics, pending,
                   ev, probes, config, server, stopAt>>

ServerConfigs ==
    {c \in YamlConfigs : /\ c.urls \in {<<>>, <<"u1">>}
                         /\ c.cooldown = NotSet
                         /\ c.latency = NotSet}

ServerInit == Init /\ config \in ServerConfigs

ServerNext ==
    \/ Next
    \/ MetricsRequest
    \/ MetricsReply
    \/ ShutdownBegin
    \/ ShutdownEnd
    \/ MainReturn
    \/ ServiceStop
    \/ ServiceStopReturn

ServerSpec == ServerInit /\ [][ServerNext]_vars

(***************************************************************************)
(* Liveness is checked under FairSpec.  The scheduler runs the main        *)
(* goroutine, a probe returns within the client's Timeout and the ticker   *)
(* fires, so every step of the loop is weakly fair, except the return of   *)
(* sendFeishuCard: http.Post uses http.DefaultClient, which has no timeout *)
(* and no context, so nothing in the program makes a POST that the webhook *)
(* never answers return.                                                   *)
(***************************************************************************)
FairSpec ==
    /\ Spec
    /\ WF_vars(LoadConfig)
    /\ WF_vars(MainExitNoURLs)
    /\ WF_vars(MainRun)
    /\ WF_vars(ExitAtCycleStart)
    /\ WF_vars(StartCycle)
    /\ WF_vars(ProbeURL)
    /\ WF_vars(ExitAtWait)
    /\ WF_vars(TickBuffered)
    /\ WF_vars(TickWait)

(***************************************************************************)
(* Properties.                                                             *)
(***************************************************************************)
TypeOK ==
    /\ pc \in {"config", "start", "halted", "select", "probe", "send", "wait", "exited"}
    /\ runtime.Cooldown \in Cooldowns \cup {DefaultCooldown}
    /\ runtime.LatencyThreshold \in LatencyThresholds
    /\ runtime.URLs \in URLLists
    /\ now \in 0..(MaxTime + ShutdownGrace)
    /\ now > MaxTime => srv = "closed"
    /\ cancelled \in BOOLEAN
    /\ process \in {"running", "exited"}
    /\ stopAt \in {Absent} \cup (0..MaxTime)
    /\ graceEnd \in {Absent} \cup (0..(MaxTime + ShutdownGrace))
    /\ graceEnd # Absent <=> srv \in {"shutdown", "closed"}
    /\ stopAt # Absent => (cancelled /\ now <= stopAt)
    /\ tickPending \in Nat
    /\ \A u \in URLSet : lastAlert[u] \in {Absent} \cup (0..MaxTime)
    /\ pc \in {"probe", "send"} => idx \in 1..Len(runtime.URLs)

AlertWorthy(status) == status \in {"ERROR", "SLOW"}

Observed == ev.kind = "probe"

\* C1: with a cooldown C > 0, once a notification for U was delivered at time T
\* and U has not been observed Healthy since, no further notification for U is
\* even attempted before T + C.
C1_CooldownRespected ==
    (/\ runtime.Cooldown > 0
     /\ Observed
     /\ ev.decision = "attempt"
     /\ sentAt[ev.url] # Absent
     /\ ~healthySince[ev.url])
    => ev.at >= sentAt[ev.url] + runtime.Cooldown

\* a second notification for a URL that stayed alert-worthy, after the cooldown
C1_Witness ==
    /\ runtime.Cooldown > 0
    /\ Observed
    /\ ev.decision = "attempt"
    /\ sentAt[ev.url] # Absent
    /\ ~healthySince[ev.url]
    /\ ev.at >= sentAt[ev.url] + runtime.Cooldown

\* C2: a Healthy observation removes the URL's entry from lastAlert in the same
\* step, whatever the cooldown and the time since the last alert.
C2_HealthyClearsState ==
    (Observed /\ ev.status = "OK") => lastAlert[ev.url] = Absent

\* a Healthy observation that clears an entry whose cooldown has not elapsed
C2_Witness ==
    /\ Observed
    /\ ev.status = "OK"
    /\ ev.prevLast # Absent
    /\ ev.at - ev.prevLast < runtime.Cooldown
    /\ lastAlert[ev.url] = Absent

\* C3: once a URL that had a notification delivered is observed Healthy, its
\* next alert-worthy observation starts a notification at once, also within the
\* cooldown of the earlier notification.
C3_RealertAfterRecovery ==
    (/\ Observed
     /\ AlertWorthy(ev.status)
     /\ sentAt[ev.url] # Absent
     /\ ev.prevHist = "healthy")
    => ev.decision = "attempt"

\* alert, Healthy, and an alert again before the cooldown of the first elapsed
C3_Witness ==
    /\ Observed
    /\ AlertWorthy(ev.status)
    /\ sentAt[ev.url] # Absent
    /\ ev.prevHist = "healthy"
    /\ ev.at < sentAt[ev.url] + runtime.Cooldown
    /\ ev.decision = "attempt"

\* the webhook's reply counts as a success in the sense of HTTP
ReplyOK(err, code) == ~err /\ code >= 200 /\ code < 300

\* C4: a failed send (transport error or non-success reply) leaves lastAlert of
\* the URL as it was, and the next alert-worthy observation of the URL starts a
\* notification again.
C4_FailedSendNotRecorded ==
    /\ (ev.kind = "send" /\ ~ReplyOK(ev.err, ev.code))
          => lastAlert[ev.url] = ev.prevLast
    /\ (Observed /\ AlertWorthy(ev.status) /\ ev.prevHist = "failed")
          => ev.decision = "attempt"

\* a retry right after a failed send, with a cooldown configured
C4_Witness ==
    /\ Observed
    /\ AlertWorthy(ev.status)
    /\ ev.prevHist = "failed"
    /\ runtime.Cooldown > 0
    /\ ev.decision = "attempt"

\* C5 as stated: with cooldown 0 every alert-worthy observation starts a
\* notification.
C5_Original ==
    (runtime.Cooldown = 0 /\ Observed /\ AlertWorthy(ev.status))
    => ev.decision = "attempt"

\* C5 as amended: with cooldown 0 and a webhook configured, every alert-worthy
\* observation starts a notification, whatever the alert history of the URL.
C5_NoSuppressionAtZero ==
    (runtime.Cooldown = 0 /\ runtime.Webhook # "" /\ Observed /\ AlertWorthy(ev.status))
    => ev.decision = "attempt"

\* cooldown 0: a notification starts at the very instant of the previous one
C5_Witness ==
    /\ runtime.Cooldown = 0
    /\ Observed
    /\ AlertWorthy(ev.status)
    /\ ev.prevLast # Absent
    /\ ev.at = ev.prevLast
    /\ ev.decision = "attempt"

\* C6: the notifier runs only in a step whose status is ERROR or SLOW; a
\* Healthy observation starts no notification and leaves the URL without entry,
\* however many Healthy observations precede it.
C6_HealthyNeverNotifies ==
    /\ (ev.decision = "attempt" \/ pc = "send" \/ pending # NoPending)
          => AlertWorthy(ev.status)
    /\ (Observed /\ ev.status = "OK")
          => /\ ev.decision = "none"
             /\ pc # "send"
             /\ lastAlert[ev.url] = Absent

\* a Healthy observation that follows a Healthy observation of the same URL
C6_Witness ==
    /\ Observed
    /\ ev.status = "OK"
    /\ ev.prevHist = "healthy"
    /\ ev.decision = "none"

\* C7: the status is ERROR for a transport error, ERROR for a code outside
\* [200,300), SLOW for a code inside it with threshold > 0 and latency strictly
\* above the threshold, and OK otherwise.
C7_ClassificationOrder ==
    Observed =>
        ev.status =
            IF ev.err THEN "ERROR"
            ELSE IF ev.code \notin 200..299 THEN "ERROR"
            ELSE IF runtime.LatencyThreshold > 0 /\ ev.latency > runtime.LatencyThreshold
                 THEN "SLOW"
            ELSE "OK"

\* a 2xx response whose latency equals the threshold is Healthy
C7_Witness ==
    /\ Observed
    /\ ~ev.err
    /\ ev.code \in 200..299
    /\ runtime.LatencyThreshold > 0
    /\ ev.latency = runtime.LatencyThreshold
    /\ ev.status = "OK"

\* C8: one timestamp per URL governs both statuses: while the cooldown of a
\* delivered notification runs and the URL was not Healthy since, an
\* observation of the other alert-worthy status is suppressed as well.
C8_SharedCooldown ==
    /\ lastAlert \in [URLSet -> {Absent} \cup (0..MaxTime)]
    /\ (/\ runtime.Cooldown > 0
        /\ Observed
        /\ AlertWorthy(ev.status)
        /\ sentAt[ev.url] # Absent
        /\ ~healthySince[ev.url]
        /\ ev.status # sentStatus[ev.url]
        /\ ev.at < sentAt[ev.url] + runtime.Cooldown)
       => ev.decision = "suppressed"

\* a notification sent for SLOW suppresses the one for a following ERROR
C8_Witness ==
    /\ Observed
    /\ ev.status = "ERROR"
    /\ sentStatus[ev.url] = "SLOW"
    /\ ~healthySince[ev.url]
    /\ ev.decision = "suppressed"

\* C9: a cycle probes every entry of the URL list exactly once, in order:
\* inside a cycle the entries before the current one were probed once and the
\* others not yet, and a finished cycle has probed each entry once.
C9_EveryURLOncePerCycle ==
    /\ pc = "probe" =>
          \A i \in 1..Len(runtime.URLs) : probes[i] = IF i < idx THEN 1 ELSE 0
    /\ pc = "send" =>
          \A i \in 1..Len(runtime.URLs) : probes[i] = IF i <= idx THEN 1 ELSE 0
    /\ pc = "wait" =>
          \A i \in 1..Len(runtime.URLs) : probes[i] = 1

\* a finished cycle of two URLs in which the notification for the first failed
C9_Witness ==
    /\ pc = "wait"
    /\ Len(runtime.URLs) = 2
    /\ runtime.URLs[1] # runtime.URLs[2]
    /\ hist[runtime.URLs[1]] = "failed"
    /\ probes = <<1, 1>>

\* FairSpec with a webhook that answers every POST
FairSpecAnswered == FairSpec /\ WF_vars(SendDone)

LoopOver == pc \in {"exited", "halted"}

\* once the loop has seen the cancellation it has returned: no step follows
C10_NoCycleAfterExit == [][pc = "exited" => pc' = "exited"]_vars

\* no cycle starts once the cancellation is raised
C10_NoCycleAfterCancel == [][(pc = "select" /\ pc' # "exited") => ~cancelled]_vars

\* C10: once the cancellation is raised the monitor loop eventually exits, and
\* no cycle starts after the loop has observed the cancellation.
C10_CancelLeadsToExit ==
    /\ cancelled ~> LoopOver
    /\ C10_NoCycleAfterExit

\* the same, for runs in which the webhook answers every POST
C10_ExitsWhenWebhookAnswers ==
    /\ cancelled ~> LoopOver
    /\ C10_NoCycleAfterExit
    /\ C10_NoCycleAfterCancel

\* the cancellation is raised while a notification is being posted
C10_CancelledWhilePosting == cancelled /\ pc = "send"

\* C11: when the cancellation is raised while a cycle is in progress, the entry
\* being handled is the last one of the cycle: the loop does not go on to the
\* next URL.
C11_CancelSkipsRemainingURLs ==
    [][(cancelled /\ pc \in {"probe", "send"}) => (pc' # "probe" \/ idx' = idx)]_vars

\* the cancellation is raised with a URL of the cycle still to be probed
C11_CancelledMidCycle ==
    /\ cancelled
    /\ pc = "probe"
    /\ idx < Len(runtime.URLs)

\* the first cycle has just finished
FirstCycleDone ==
    /\ pc = "wait"
    /\ reqDuration["u1"] + reqDuration["u2"] = Len(runtime.URLs)

\* C12: ticks do not stack: at most one tick is ever buffered, so after a cycle
\* that overran the interval the receive of the buffered tick leaves none
\* behind, and the cycle after the next one needs a fresh tick.
C12_TicksDoNotStack ==
    /\ [](tickPending <= 1)
    /\ [][(pc = "wait" /\ pc' = "select") => tickPending' = 0]_vars

\* the first cycle overran by two intervals (the ticks at Interval and at
\* 2 * Interval fired during it) and one tick is buffered
C12_Witness ==
    /\ FirstCycleDone
    /\ now >= 2 * Interval
    /\ nextTick > now
    /\ tickPending = 1

NothingEverRan ==
    /\ \A u \in URLSet :
          /\ reqDuration[u] = 0
          /\ \A st \in Statuses : reqTotal[u][st] = 0
          /\ lastAlert[u] = Absent
          /\ hist[u] = "none"
    /\ pending = NoPending
    /\ ev = NoEvent
    /\ srv = "off"

\* C13: with an empty URL list, from config.yaml or from the environment, the
\* process halts at startup: the loop is never entered, and no probe, no
\* notification and no change of the alert state ever happens.
C13_EmptyListHalts ==
    (pc # "config" /\ Len(runtime.URLs) = 0)
    => (pc \in {"start", "halted"} /\ NothingEverRan)

\* MONITOR_URLS holds only blanks: the process has halted
C13_Witness ==
    /\ pc = "halted"
    /\ process = "exited"
    /\ config.source = "env"
    /\ config.urls = <<" ">>

\* C14: the cooldown is 60 when it is not configured, on the config.yaml path
\* and on the environment path, and a negative configured value becomes 0.
C14_CooldownDefault ==
    pc = "start" =>
        /\ ~config.cooldown.set => runtime.Cooldown = 60
        /\ (config.cooldown.set /\ config.cooldown.val < 0) => runtime.Cooldown = 0

\* config.yaml without alert.cooldown_seconds has been loaded
C14_YamlWithoutCooldown ==
    /\ pc = "start"
    /\ config.source = "yaml"
    /\ ~config.cooldown.set

\* what the code does: the default is 60 on the environment path only;
\* config.yaml without the key gives 0
C14_CooldownAsLoaded ==
    pc = "start" =>
        /\ (config.source = "env" /\ ~config.cooldown.set) => runtime.Cooldown = 60
        /\ (config.source = "yaml" /\ ~config.cooldown.set) => runtime.Cooldown = 0
        /\ (config.cooldown.set /\ config.cooldown.val < 0) => runtime.Cooldown = 0
        /\ (config.cooldown.set /\ config.cooldown.val >= 0)
              => runtime.Cooldown = config.cooldown.val

\* C15: on cancellation the metrics listener shuts down gracefully, and the
\* process does not end before that shutdown is over: when main has returned,
\* the listener is closed and no request was cut off within the grace period.
C15_GracefulShutdown ==
    (process = "exited" /\ pc = "exited") => srv = "closed"

\* the process has ended while Shutdown was waiting for a request in flight
C15_ExitDuringShutdown ==
    /\ process = "exited"
    /\ srv = "shutdown"
    /\ inflight > 0

\* what the code does give: the listener stops accepting once Shutdown has
\* begun, and Shutdown begins only after the cancellation
C15_NoAcceptAfterShutdown ==
    /\ [][(srv \in {"shutdown", "closed"}) => (inflight' <= inflight)]_vars
    /\ [](srv \in {"shutdown", "closed"} => cancelled)

InCycle == pc \in {"probe", "send"}

\* C17: every started cycle eventually completes: the loop reaches the wait
\* for the next tick, whatever the webhook does with a notification request.
C17_CycleCompletes == InCycle ~> (pc = "wait")

\* the same, for runs in which the webhook answers every POST
C17_CompletesWhenWebhookAnswers == InCycle ~> (pc = "wait")

\* a notification is being posted while entries of the cycle are still to come
C17_PostingMidCycle ==
    /\ pc = "send"
    /\ idx < Len(runtime.URLs)

\* a cooldown decision came out "allowed" and its recordAlert is still to come
Deciding == pc = "send"

ProbeStep == pc = "probe" /\ probes' # probes

\* C19: a probe adds one to the request counter of its URL and its final status
\* and one observation to the latency histogram of its URL, whatever becomes of
\* the notification, and nothing else adds a sample.
C19_OneSamplePerProbe ==
    [][/\ ProbeStep =>
            /\ ev'.kind = "probe"
            /\ ev'.status = Classify(ev'.err, ev'.code, ev'.latency,
                                     runtime.LatencyThreshold)
            /\ ev'.decision \in {"none", "attempt", "suppressed", "nowebhook"}
            /\ reqTotal' = [reqTotal EXCEPT ![ev'.url][ev'.status] = @ + 1]
            /\ reqDuration' = [reqDuration EXCEPT ![ev'.url] = @ + 1]
       /\ ~ProbeStep => UNCHANGED <<reqTotal, reqDuration>>]_vars

\* the second probe of a URL is SLOW and its notification is suppressed by the
\* cooldown of the ERROR before it: both probes are counted, each under its status
C19_Witness ==
    /\ Observed
    /\ ev.status = "SLOW"
    /\ ev.decision = "suppressed"
    /\ reqTotal[ev.url] = [OK |-> 0, ERROR |-> 1, SLOW |-> 1]
    /\ reqDuration[ev.url] = 2

\* C20: an alert-worthy observation suppressed by the cooldown leaves the
\* lastAlert entry of its URL as it was, so the window is not extended: with a
\* webhook configured and a cooldown C > 0, an alert-worthy observation of a
\* URL whose entry is T is suppressed when it is made before T + C and leads
\* to a notification attempt when it is made at T + C or later.
C20_SuppressedKeepsWindow ==
    (Observed /\ AlertWorthy(ev.status)) =>
        /\ ev.decision = "suppressed" =>
              /\ lastAlert[ev.url] = ev.prevLast
              /\ ev.prevLast # Absent
        /\ (runtime.Webhook # "" /\ runtime.Cooldown > 0 /\ ev.prevLast # Absent) =>
              /\ ev.at - ev.prevLast >= runtime.Cooldown => ev.decision = "attempt"
              /\ ev.at - ev.prevLast < runtime.Cooldown => ev.decision = "suppressed"

\* the observation before this one was suppressed, and this one is made exactly
\* one cooldown after the recorded alert: the notification is attempted
C20_Witness ==
    /\ Observed
    /\ AlertWorthy(ev.status)
    /\ ev.prevHist = "suppressed"
    /\ runtime.Cooldown > 0
    /\ ev.prevLast # Absent
    /\ ev.at - ev.prevLast = runtime.Cooldown
    /\ ev.decision = "attempt"
    /\ pc = "send"

\* no notification was ever posted and the alert-state table is empty
NeverNotified ==
    /\ \A u \in URLSet : lastAlert[u] = Absent /\ sentAt[u] = Absent
    /\ pc # "send"
    /\ pending = NoPending
    /\ ev.kind # "send"

\* C21: a URL has a lastAlert entry only if a notification for it was delivered
\* (the webhook answered 200) and the URL has not been observed Healthy since;
\* the entry is the time of that delivery.  With no webhook configured the
\* table stays empty and no notification is ever attempted.
C21_EntryOnlyAfterDelivery ==
    /\ \A u \in URLSet :
          lastAlert[u] # Absent =>
              /\ sentAt[u] # Absent
              /\ ~healthySince[u]
              /\ lastAlert[u] = sentAt[u]
              /\ runtime.Webhook # ""
    /\ (ev.kind = "send" /\ lastAlert[ev.url] # ev.prevLast) => ReplyOK(ev.err, ev.code)
    /\ runtime.Webhook = "" => NeverNotified

\* one URL has an entry after a delivered notification, the other has none
\* because the webhook refused its notification
C21_Witness ==
    /\ lastAlert["u1"] # Absent
    /\ sentAt["u1"] = lastAlert["u1"]
    /\ hist["u2"] = "failed"
    /\ lastAlert["u2"] = Absent

\* no webhook: an alert-worthy observation was made and only logged
C21_NoWebhookObserved ==
    /\ runtime.Webhook = ""
    /\ Observed
    /\ AlertWorthy(ev.status)
    /\ ev.decision = "nowebhook"
    /\ NeverNotified

\* an entry was deleted by a Healthy observation after a delivery
C21_ClearedAfterDelivery ==
    /\ Observed
    /\ ev.status = "OK"
    /\ ev.prevLast # Absent
    /\ lastAlert[ev.url] = Absent
    /\ healthySince[ev.url]

====
